---- MODULE Spec2Model ----
(***************************************************************************)
(* Model of the fio log parsers and unit normalizers of                    *)
(* pku-ssd-write-buffer-graph:                                             *)
(*   scripts/plot_fio_l2p_cache_results.py          ("cache" script)       *)
(*   scripts/plot_fio_l2p_write_buffer_results.py   ("wb" script)          *)
(*   scripts/plot_fio_results.py                    ("plain" script)       *)
(*                                                                         *)
(* Text is modelled at the granularity the regular expressions of the      *)
(* scripts observe: a log is a sequence of lines, a line is a record of    *)
(* the tokens the patterns capture, a number token is its digits.          *)
(* Floating point values are modelled as exact rationals m * 2^p2 * 5^p5   *)
(* (every conversion of the scripts multiplies by a power of 10 or of      *)
(* 1024), so rounding of IEEE doubles is not modelled.                     *)
(***************************************************************************)
EXTENDS Integers, Sequences, FiniteSets, TLC

VARIABLES
    call,       \* unit normalizers: the pending call [fn, lit, sfx, unit, bw]
    ret,        \* unit normalizers: what the call returned or raised
    parser,     \* which parse function runs on `content`
    content,    \* the text of the log file, a sequence of lines
    op_type,    \* parse_fio_log_improved(log_file, op_type) of the cache script
    pc,         \* position of the running parse function
    i,          \* loop index of the running parse function
    data,       \* sweep parsers: the dict of lists being filled
    cases,      \* wb parse_fio_log: the cases mapping, name -> FioCase
    skipped,    \* wb parse_fio_log: the skipped list
    names,      \* order_by_group: the names argument
    group,      \* order_by_group: the group argument
    ordered,    \* order_by_group: the returned list
    test_files, \* parse_dataset, main of the wb script: the files of the batch
    all_data    \* parse_dataset, main of the wb script: the results so far

vars == <<call, ret, parser, content, op_type, pc, i, data, cases, skipped,
          names, group, ordered, test_files, all_data>>

(***************************************************************************)
(* Numbers.                                                                *)
(***************************************************************************)

\* A float: m * 2^p2 * 5^p5 with m coprime to 10 (or m = 0, p2 = p5 = 0).
Zero == [m |-> 0, p2 |-> 0, p5 |-> 0]

RECURSIVE Canon(_)
Canon(x) ==
    IF x.m = 0 THEN Zero
    ELSE IF x.m % 2 = 0 THEN Canon([x EXCEPT !.m = @ \div 2, !.p2 = @ + 1])
    ELSE IF x.m % 5 = 0 THEN Canon([x EXCEPT !.m = @ \div 5, !.p5 = @ + 1])
    ELSE x

\* The decimal number m * 10^e.
Dec(m, e) == Canon([m |-> m, p2 |-> e, p5 |-> e])

\* x * 10^k and x * 1024^k (k may be negative: a division).
Mul10(x, k) == IF x.m = 0 THEN x ELSE [x EXCEPT !.p2 = @ + k, !.p5 = @ + k]
Mul1024(x, k) == IF x.m = 0 THEN x ELSE [x EXCEPT !.p2 = @ + 10 * k]

\* A number literal of the log, "[\d.]+": the digits m with -e of them after
\* the decimal point; the text holds a '.' exactly when e < 0.
Lit(m, e) == [m |-> m, e |-> e]
HasDot(lit) == lit.e < 0

\* Python's float(text) and int(text) on a literal.
Float(lit) == Dec(lit.m, lit.e)

\* What a call returns: a value, or the exception it raised.
Ok(v) == [exc |-> "", val |-> v]
Raise(e) == [exc |-> e, val |-> Zero]
NoRet == [exc |-> "pending", val |-> Zero]

(***************************************************************************)
(* Unit strings of the latency blocks, as character sequences so that      *)
(* str.lower and str.startswith are computed, not tabulated.               *)
(***************************************************************************)

nsec == <<"n", "s", "e", "c">>
usec == <<"u", "s", "e", "c">>
msec == <<"m", "s", "e", "c">>
sec == <<"s", "e", "c">>
nsecs == <<"n", "s", "e", "c", "s">>
msecs == <<"m", "s", "e", "c", "s">>
NSEC == <<"N", "S", "E", "C">>
hour == <<"h", "o", "u", "r">>

LowerChar(c) ==
    CASE c = "N" -> "n" [] c = "S" -> "s" [] c = "E" -> "e" [] c = "C" -> "c"
      [] c = "K" -> "k" [] c = "M" -> "m" [] OTHER -> c
Lower(s) == [k \in DOMAIN s |-> LowerChar(s[k])]
StartsWith(s, p) == Len(s) >= Len(p) /\ SubSeq(s, 1, Len(p)) = p

(***************************************************************************)
(* Unit normalizers.                                                       *)
(***************************************************************************)

\* parse_iops(iops_text) of the cache and wb scripts (the same code):
\* tok = [lit, k], the text is the literal followed by "k" when tok.k.
parse_iops(tok) ==
    IF tok.k THEN Ok(Mul10(Float(tok.lit), 3)) ELSE Ok(Float(tok.lit))

\* parse_bw_to_mib(value_text, unit_text) of the cache script.
cache_parse_bw_to_mib(value_text, unit_text) ==
    LET value == Float(value_text) IN
    IF unit_text = "KiB/s" THEN Ok(Mul1024(value, -1))
    ELSE IF unit_text = "MiB/s" THEN Ok(value)
    ELSE IF unit_text = "GiB/s" THEN Ok(Mul1024(value, 1))
    ELSE Ok(value)

\* parse_bw_to_mib(value, unit) of the wb script.
wb_parse_bw_to_mib(value, unit) ==
    LET v == Float(value) IN
    IF unit = "KiB/s" THEN Ok(Mul1024(v, -1))
    ELSE IF unit = "MiB/s" THEN Ok(v)
    ELSE IF unit = "GiB/s" THEN Ok(Mul1024(v, 1))
    ELSE Raise("ValueError")

\* convert_latency_to_us(value, unit, suffix) of the cache script.
convert_latency_to_us(value, unit, suffix) ==
    LET scaled ==
            IF suffix = "k" THEN Mul10(value, 3)
            ELSE IF suffix = "m" THEN Mul10(value, 6)
            ELSE IF suffix = "u" THEN value
            ELSE IF suffix = "n" THEN Mul10(value, -3)
            ELSE value
    IN  IF unit \in {nsec, nsecs} THEN Ok(Mul10(scaled, -3))
        ELSE IF unit \in {msec, msecs} THEN Ok(Mul10(scaled, 3))
        ELSE Ok(scaled)

\* parse_latency_to_us with the test for "sec" tried before the one for
\* "usec", as a test `"sec" in unit`: microseconds are taken for seconds.
parse_latency_to_us_sec_first(base_unit, avg_value, suffix) ==
    LET value0 == Float(avg_value)
        value ==
            IF suffix = "k" THEN Mul10(value0, 3)
            ELSE IF suffix = "m" THEN Mul10(value0, 6)
            ELSE IF suffix = "u" THEN Mul10(value0, -6)
            ELSE IF suffix = "n" THEN Mul10(value0, -9)
            ELSE value0
        unit == Lower(base_unit)
        ends_sec == Len(unit) >= 3 /\ SubSeq(unit, Len(unit) - 2, Len(unit)) = sec
    IN  IF StartsWith(unit, nsec) THEN Ok(Mul10(value, -3))
        ELSE IF StartsWith(unit, msec) THEN Ok(Mul10(value, 3))
        ELSE IF ends_sec THEN Ok(Mul10(value, 6))
        ELSE Ok(value)

\* parse_latency_to_us(base_unit, avg_value, suffix) of the wb script.
parse_latency_to_us(base_unit, avg_value, suffix) ==
    LET value0 == Float(avg_value)
        value ==
            IF suffix = "k" THEN Mul10(value0, 3)
            ELSE IF suffix = "m" THEN Mul10(value0, 6)
            ELSE IF suffix = "u" THEN Mul10(value0, -6)
            ELSE IF suffix = "n" THEN Mul10(value0, -9)
            ELSE value0
        unit == Lower(base_unit)
    IN  IF StartsWith(unit, nsec) THEN Ok(Mul10(value, -3))
        ELSE IF StartsWith(unit, usec) THEN Ok(value)
        ELSE IF StartsWith(unit, msec) THEN Ok(Mul10(value, 3))
        ELSE IF StartsWith(unit, sec) THEN Ok(Mul10(value, 6))
        ELSE Ok(value)

(***************************************************************************)
(* Log text.  A line is a record of what the patterns of the scripts can   *)
(* see in it; `len` is its length in characters (newline included) and     *)
(* `comma` the offset of its first ',' (-1: none), which the legacy        *)
(* parse_fio_log reads through content[find:find + 500].                   *)
(***************************************************************************)

\* An IOPS token "[\d.]+k?" and a latency token "[\d.]+[kmun]*".
IopsTok(m, e, k) == [lit |-> Lit(m, e), k |-> k]
LatTok(m, e, sfx) == [lit |-> Lit(m, e), sfx |-> sfx]

\* "--- Testing QD=<qd> ---"
Banner(qd) == [kind |-> "banner", qd |-> qd, len |-> 21, comma |-> -1]
\* any other line: a job description, the fio version, padding
TextLine(len, comma, hasK) ==
    [kind |-> "text", len |-> len, comma |-> comma, k |-> hasK]
\* "  <op>: IOPS=<iops>, BW=<bw><unit> (...)"; iops = <<>>: the line holds no
\* IOPS field; unit = "": the line stops after the IOPS field
OpLine(op, iops, bw, unit) ==
    [kind |-> "op", op |-> op, iops |-> iops, bw |-> bw, unit |-> unit,
     len |-> 60, comma |-> IF iops # <<>> /\ unit # "" THEN 18 ELSE -1]
\* "    slat (nsec): min=1, max=2, avg=<avg>, stdev=0.1", avg a latency token
SlatLine(avg) == [kind |-> "slat", avg |-> avg, len |-> 52, comma |-> 22]
\* "    clat (<unit>): min=<min>, max=<max>, avg=<avg>, stdev=<sd>" when full,
\* "    clat (<unit>): avg=<avg>" otherwise
ClatLine(unit, full, min, max, avg) ==
    [kind |-> "clat", unit |-> unit, full |-> full, min |-> min, max |-> max,
     avg |-> avg, len |-> 56, comma |-> IF full THEN 22 ELSE -1]
\* "    clat percentiles (<unit>):"
PctHdr(unit) == [kind |-> "pcthdr", unit |-> unit, len |-> 30, comma |-> -1]
\* "     | 90.00th=[<p90>], 99.00th=[<p99>], 99.90th=[<p999>]"; <<>>: label absent
PctVal(p90, p99, p999) ==
    [kind |-> "pctval", p90 |-> p90, p99 |-> p99, p999 |-> p999,
     len |-> 58, comma |-> 22]

\* Whether the line's text contains the character 'k'.
HasK(l) ==
    CASE l.kind = "text" -> l.k
      [] l.kind = "op" -> l.iops # <<>> /\ l.iops[1].k
      [] l.kind = "clat" -> "k" \in {l.min.sfx, l.max.sfx, l.avg.sfx}
      [] OTHER -> FALSE

\* The least element of a set of positions, 0 for the empty set: where
\* re.search finds its first match.
First(S) == IF S = {} THEN 0 ELSE CHOOSE k \in S : \A j \in S : k <= j

\* Offset in characters of line k of text t.
RECURSIVE Offset(_, _)
Offset(t, k) == IF k <= 1 THEN 0 ELSE Offset(t, k - 1) + t[k - 1].len

\* re.split(r'--- Testing QD=(\d+) ---', content): the text before the first
\* banner, then for every banner its number and the text up to the next one.
RECURSIVE SplitFrom(_, _, _)
SplitFrom(t, k, acc) ==
    IF k > Len(t) THEN acc
    ELSE IF t[k].kind = "banner"
         THEN SplitFrom(t, k + 1, acc \o <<t[k].qd, <<>> >>)
         ELSE SplitFrom(t, k + 1,
                        [acc EXCEPT ![Len(acc)] = Append(@, t[k])])
\* A split that yields no text for a banner the file ends with.
Split_drops_empty_tail(t) ==
    LET qs == SplitFrom(t, 1, << <<>> >>)
    IN  IF Len(qs) > 1 /\ qs[Len(qs)] = <<>> THEN SubSeq(qs, 1, Len(qs) - 1)
        ELSE qs
Split(t) == SplitFrom(t, 1, << <<>> >>)

EmptyData ==
    [qd |-> <<>>, iops |-> <<>>, bandwidth |-> <<>>, latency |-> <<>>,
     latency_min |-> <<>>, latency_max |-> <<>>, latency_avg |-> <<>>,
     latency_p90 |-> <<>>, latency_p99 |-> <<>>, latency_p999 |-> <<>>]

(***************************************************************************)
(* Sweep parser of the cache script: parse_fio_log_improved.               *)
(***************************************************************************)

\* re.search(rf'{op_type}: IOPS=([\d.]+k?)', section)
cache_iops_match(section, op) ==
    First({k \in DOMAIN section :
             /\ section[k].kind = "op"
             /\ section[k].op = op
             /\ section[k].iops # <<>>})

\* re.search(r'BW=([\d.]+)(KiB/s|MiB/s|GiB/s)', section)
cache_bw_match(section) ==
    First({k \in DOMAIN section :
             /\ section[k].kind = "op"
             /\ section[k].unit \in {"KiB/s", "MiB/s", "GiB/s"}})

\* extract_all_latency_metrics(section): <<>> for None, else <<metrics>>.
\* The pattern takes suffixes "[kmun]*" after each of min, max, avg, stdev.
extract_all_latency_metrics(section) ==
    LET c == First({k \in DOMAIN section :
                      section[k].kind = "clat" /\ section[k].full})
    IN  IF c = 0 THEN <<>>
        ELSE LET l == section[c]
                 conv(tok) ==
                     convert_latency_to_us(Float(tok.lit), l.unit, tok.sfx).val
             IN  << [min |-> conv(l.min), max |-> conv(l.max),
                     avg |-> conv(l.avg)] >>

\* re.search(rf'{label}=\[\s*([\d.]+)([kmun]?)\]', section) for one label:
\* the token of the first line that holds the label with at most one suffix
\* character, <<>> when there is none.
pct_label_match(section, label) ==
    LET holds(l) ==
            /\ l.kind = "pctval"
            /\ l[label] # <<>>
            /\ l[label][1].sfx \in {"", "k", "m", "u", "n"}
        p == First({k \in DOMAIN section : holds(section[k])})
    IN  IF p = 0 THEN <<>> ELSE section[p][label]

\* extract_latency_percentiles(section): <<>> for None, else <<metrics>>.
extract_latency_percentiles(section) ==
    LET h == First({k \in DOMAIN section : section[k].kind = "pcthdr"})
        m90 == pct_label_match(section, "p90")
        m99 == pct_label_match(section, "p99")
        m999 == pct_label_match(section, "p999")
    IN  IF h = 0 \/ m90 = <<>> \/ m99 = <<>> \/ m999 = <<>> THEN <<>>
        ELSE LET conv(tok) ==
                     convert_latency_to_us(Float(tok.lit), section[h].unit,
                                           tok.sfx).val
             IN  << [latency_p90 |-> conv(m90[1]),
                     latency_p99 |-> conv(m99[1]),
                     latency_p999 |-> conv(m999[1])] >>

\* One pass of the loop body of parse_fio_log_improved (cache script) over
\* the pair (qd, section), on the dict d.
cache_improved_body(d, qd, section, op) ==
    LET im == cache_iops_match(section, op)
        bm == cache_bw_match(section)
        latency_metrics == extract_all_latency_metrics(section)
        latency_percentiles == extract_latency_percentiles(section)
    IN  IF im = 0 \/ bm = 0 \/ latency_metrics = <<>>
           \/ latency_percentiles = <<>>
        THEN d
        ELSE [d EXCEPT
                !.iops = Append(@, parse_iops(section[im].iops[1]).val),
                !.bandwidth =
                    Append(@, cache_parse_bw_to_mib(section[bm].bw,
                                                    section[bm].unit).val),
                !.latency_min = Append(@, latency_metrics[1].min),
                !.latency_max = Append(@, latency_metrics[1].max),
                !.latency_avg = Append(@, latency_metrics[1].avg),
                !.latency_p90 = Append(@, latency_percentiles[1].latency_p90),
                !.latency_p99 = Append(@, latency_percentiles[1].latency_p99),
                !.latency_p999 =
                    Append(@, latency_percentiles[1].latency_p999),
                !.qd = Append(@, qd)]

(***************************************************************************)
(* Sweep parser of the plain script: parse_fio_log_improved.               *)
(***************************************************************************)

\* re.search(r'read: IOPS=([\d.]+)k?', section)
plain_iops_match(section) ==
    First({k \in DOMAIN section :
             /\ section[k].kind = "op"
             /\ section[k].op = "read"
             /\ section[k].iops # <<>>})

\* re.search(r'BW=([\d.]+)MiB/s', section)
plain_bw_match(section) ==
    First({k \in DOMAIN section :
             section[k].kind = "op" /\ section[k].unit = "MiB/s"})

\* re.search(r'clat \(.*?\): min=\d+(?:\.?\d+)?(?:k|m|u|n)?, max=..., avg=([\d.]+)'):
\* min and max take at most one suffix character.
plain_clat_match(section) ==
    First({k \in DOMAIN section :
             /\ section[k].kind = "clat"
             /\ section[k].full
             /\ section[k].min.sfx \in {"", "k", "m", "u", "n"}
             /\ section[k].max.sfx \in {"", "k", "m", "u", "n"}})

\* One pass of the loop body of parse_fio_log_improved (plain script).
plain_improved_body(d, qd, section) ==
    LET im == plain_iops_match(section)
        bm == plain_bw_match(section)
        cm == plain_clat_match(section)
        d1 == IF im = 0 THEN d
              ELSE LET iops_val == Float(section[im].iops[1].lit)
                   IN  [d EXCEPT !.iops =
                           Append(@, IF section[im].iops[1].k
                                     THEN Mul10(iops_val, 3) ELSE iops_val)]
        d2 == IF bm = 0 THEN d1
              ELSE [d1 EXCEPT !.bandwidth = Append(@, Float(section[bm].bw))]
        d3 == IF cm = 0 THEN d2
              ELSE [d2 EXCEPT !.latency = Append(@, Float(section[cm].avg.lit))]
    IN  [d3 EXCEPT !.qd = Append(@, qd)]

(***************************************************************************)
(* Legacy sweep parser parse_fio_log (the same code in the cache and the   *)
(* plain script): one pattern over the whole content, re.DOTALL.           *)
(***************************************************************************)

\* The width of the slice content[find:find + 500].
Window == 500

\* Whether the decimal text of a is a prefix of the decimal text of b:
\* content.find(f'QD={a}') also stops at a banner "QD=<b>".
RECURSIVE DecPrefix(_, _)
DecPrefix(a, b) == a = b \/ (b >= 10 /\ DecPrefix(a, b \div 10))

\* re.findall(qd_pattern, content, re.DOTALL) from line pos on.  The lazy
\* ".*?" run over line and banner boundaries: the banner, then the first
\* later line "read: IOPS=<n>k?, BW=<n>MiB/s", then the first later line
\* "\s+slat", then the first later line "\s+clat" (a clat line or the
\* header of the percentiles), then the first "avg=<n>" from there on.
RECURSIVE legacy_findall(_, _)
legacy_findall(t, pos) ==
    LET b == First({k \in DOMAIN t : k >= pos /\ t[k].kind = "banner"})
        r == First({k \in DOMAIN t :
                      /\ b > 0 /\ k > b
                      /\ t[k].kind = "op" /\ t[k].op = "read"
                      /\ t[k].iops # <<>> /\ t[k].unit = "MiB/s"})
        s == First({k \in DOMAIN t : r > 0 /\ k > r /\ t[k].kind = "slat"})
        c == First({k \in DOMAIN t :
                      s > 0 /\ k > s /\ t[k].kind \in {"clat", "pcthdr"}})
        a == First({k \in DOMAIN t :
                      c > 0 /\ k >= c /\ t[k].kind \in {"clat", "slat"}})
    IN  IF a = 0 THEN <<>>
        ELSE << [qd |-> t[b].qd, iops_str |-> t[r].iops[1].lit,
                 bw |-> t[r].bw, avg |-> t[a].avg.lit] >>
             \o legacy_findall(t, a + 1)

\* ',' in content[content.find(f'QD={qd}'):content.find(f'QD={qd}') + 500]
legacy_comma_in_window(t, qd) ==
    LET f == First({k \in DOMAIN t :
                      t[k].kind = "banner" /\ DecPrefix(qd, t[k].qd)})
        p == Offset(t, f) + 12
    IN  \E j \in DOMAIN t :
            /\ t[j].comma >= 0
            /\ p <= Offset(t, j) + t[j].comma
            /\ Offset(t, j) + t[j].comma < p + Window

\* The IOPS of one match: lines 126-138 of the cache script (38-50 of the
\* plain script).  'k' in iops_str never holds: the group is "[\d.]+".
legacy_iops_val(t, mt) ==
    IF legacy_comma_in_window(t, mt.qd)
    THEN \* re.search('--- Testing QD=<qd> ---.*?read: IOPS=([\d.]+)k?')
         LET b == First({k \in DOMAIN t :
                           t[k].kind = "banner" /\ t[k].qd = mt.qd})
             r == First({k \in DOMAIN t :
                           /\ k > b /\ t[k].kind = "op"
                           /\ t[k].op = "read" /\ t[k].iops # <<>>})
             iops_val == Float(t[r].iops[1].lit)
             \* 'k' in iops_match.group(0).split('\n')[1]: the line after
             \* the banner, cut at the end of the match
             second_has_k == IF r = b + 1 THEN t[r].iops[1].k
                             ELSE HasK(t[b + 1])
         IN  IF second_has_k THEN Mul10(iops_val, 3) ELSE iops_val
    ELSE IF HasDot(mt.iops_str) THEN Mul10(Float(mt.iops_str), 3)
         ELSE Float(mt.iops_str)

\* One pass of the loop over the matches.
legacy_body(d, t, mt) ==
    [d EXCEPT !.qd = Append(@, mt.qd),
              !.iops = Append(@, legacy_iops_val(t, mt)),
              !.bandwidth = Append(@, Float(mt.bw)),
              !.latency = Append(@, Float(mt.avg))]

(***************************************************************************)
(* Named-run grammar of the wb script.  Case names are character           *)
(* sequences: infer_group tests prefixes, sorted() compares them.          *)
(***************************************************************************)

vol_small_seq == <<"v", "o", "l", "_", "s", "m", "a", "l", "l", "_", "s", "e", "q">>
vol_small_rand == <<"v", "o", "l", "_", "s", "m", "a", "l", "l", "_", "r", "a", "n", "d">>
vol_large_seq == <<"v", "o", "l", "_", "l", "a", "r", "g", "e", "_", "s", "e", "q">>
vol_large_rand == <<"v", "o", "l", "_", "l", "a", "r", "g", "e", "_", "r", "a", "n", "d">>
vol_mid_seq == <<"v", "o", "l", "_", "m", "i", "d", "_", "s", "e", "q">>
vol_extra == <<"v", "o", "l", "_", "e", "x", "t", "r", "a">>
mode_write == <<"m", "o", "d", "e", "_", "w", "r", "i", "t", "e">>
mode_randwrite == <<"m", "o", "d", "e", "_", "r", "a", "n", "d", "w", "r", "i", "t", "e">>
mode_rw == <<"m", "o", "d", "e", "_", "r", "w">>
mode_randrw == <<"m", "o", "d", "e", "_", "r", "a", "n", "d", "r", "w">>
mode_trim == <<"m", "o", "d", "e", "_", "t", "r", "i", "m">>
bs_4k == <<"b", "s", "_", "4", "k">>
bs_128k == <<"b", "s", "_", "1", "2", "8", "k">>
bs_1m == <<"b", "s", "_", "1", "m">>
jobs_1 == <<"j", "o", "b", "s", "_", "1">>
jobs_4 == <<"j", "o", "b", "s", "_", "4">>
qd_scan_1 == <<"q", "d", "_", "s", "c", "a", "n", "_", "1">>
qd_scan_8 == <<"q", "d", "_", "s", "c", "a", "n", "_", "8">>
pre_fill == <<"p", "r", "e", "_", "f", "i", "l", "l">>
warmup == <<"w", "a", "r", "m", "u", "p">>

\* The prefixes infer_group tests.
p_vol == <<"v", "o", "l", "_">>
p_bs == <<"b", "s", "_">>
p_jobs == <<"j", "o", "b", "s", "_">>
p_mode == <<"m", "o", "d", "e", "_">>
p_qd_scan == <<"q", "d", "_", "s", "c", "a", "n", "_">>

\* "--- Running: <name> (RW=<rw>, BS=<bs>, Jobs=<jobs>, QD=<qd>) ---";
\* args.Jobs and args.QD are <<>> when the key is absent or its value empty,
\* args.BS = [n, u] is the text <n><u>.
RunBanner(name, args) ==
    [kind |-> "run", name |-> name, args |-> args, len |-> 64, comma |-> 30]
\* "<job>: (groupid=0, jobs=1): err= <err>: pid=..."
ErrLine(job, err) ==
    [kind |-> "err", job |-> job, err |-> err, len |-> 60, comma |-> 20]
\* "fio: io_u error on file /dev/x: Input/output error: write offset=0"
IoErrLine == [kind |-> "ioerr", len |-> 70, comma |-> 68]
\* "Run status group 0 (all jobs):"
RunStatusLine == [kind |-> "runstatus", len |-> 31, comma |-> -1]

\* infer_group(case_name)
infer_group(case_name) ==
    IF StartsWith(case_name, p_vol) THEN "volume"
    ELSE IF StartsWith(case_name, p_bs) THEN "block_size"
    ELSE IF StartsWith(case_name, p_jobs) THEN "jobs"
    ELSE IF StartsWith(case_name, p_mode) THEN "mode"
    ELSE IF StartsWith(case_name, p_qd_scan) THEN "qd_scan"
    ELSE "other"

\* re.search(rf"{case_name}: \(groupid=.*?\): err=\s*(\d+)", section): the
\* first err line of the job named case_name (no name of the inputs is a
\* proper suffix of another, so the unanchored pattern matches no other job).
wb_err_match(case_name, section) ==
    First({k \in DOMAIN section :
             section[k].kind = "err" /\ section[k].job = case_name})

\* re.search(r"write:\s+IOPS=([\d.]+k?),\s+BW=([\d.]+)(KiB/s|MiB/s|GiB/s)")
wb_write_match(section) ==
    First({k \in DOMAIN section :
             /\ section[k].kind = "op" /\ section[k].op = "write"
             /\ section[k].iops # <<>>
             /\ section[k].unit \in {"KiB/s", "MiB/s", "GiB/s"}})

\* re.search(r"write:.*?(?=\n\s{2}(?:read|trim):|\nRun status group|\Z)",
\* re.DOTALL): the lines from the first "write:" up to the next read or trim
\* block, the run status, or the end of the section; the whole section when
\* there is no "write:".
wb_write_block(section) ==
    LET w == First({k \in DOMAIN section :
                      section[k].kind = "op" /\ section[k].op = "write"})
        e == First({k \in DOMAIN section :
                      /\ k > w
                      /\ \/ /\ section[k].kind = "op"
                            /\ section[k].op \in {"read", "trim"}
                         \/ section[k].kind = "runstatus"})
    IN  IF w = 0 THEN section
        ELSE SubSeq(section, w, IF e = 0 THEN Len(section) ELSE e - 1)

\* The one character "[kmun]?" takes of a suffix.
FirstSfxChar(sfx) == IF sfx = "kk" THEN "k" ELSE sfx

\* parse_single_case without `if err != 0: return None`.
parse_single_case_keeps_failed(case_name, header_args, section) ==
    LET grp == infer_group(case_name)
        jobs == IF header_args.Jobs = <<>> THEN 1 ELSE header_args.Jobs[1]
        qd == IF header_args.QD = <<>> THEN 1 ELSE header_args.QD[1]
        em == wb_err_match(case_name, section)
        err == IF em # 0 THEN section[em].err ELSE 0
        wm == wb_write_match(section)
        write_block == wb_write_block(section)
        cm == First({k \in DOMAIN write_block : write_block[k].kind = "clat"})
    IN  IF case_name = pre_fill THEN <<>>
        ELSE IF grp = "other" THEN <<>>
        ELSE IF \E k \in DOMAIN section : section[k].kind = "ioerr" THEN <<>>
        ELSE IF wm = 0 THEN <<>>
        ELSE IF cm = 0 THEN <<>>
        ELSE << [name |-> case_name, group |-> grp, rw |-> header_args.RW,
                 bs |-> header_args.BS, jobs |-> jobs, qd |-> qd, err |-> err,
                 write_iops |-> parse_iops(section[wm].iops[1]).val,
                 write_bw_mib |->
                     wb_parse_bw_to_mib(section[wm].bw, section[wm].unit).val,
                 write_lat_us |->
                     parse_latency_to_us(
                         write_block[cm].unit, write_block[cm].avg.lit,
                         FirstSfxChar(write_block[cm].avg.sfx)).val] >>

\* parse_single_case without `if "Input/output error" in section: return None`.
parse_single_case_ignores_marker(case_name, header_args, section) ==
    LET grp == infer_group(case_name)
        jobs == IF header_args.Jobs = <<>> THEN 1 ELSE header_args.Jobs[1]
        qd == IF header_args.QD = <<>> THEN 1 ELSE header_args.QD[1]
        em == wb_err_match(case_name, section)
        err == IF em # 0 THEN section[em].err ELSE 0
        wm == wb_write_match(section)
        write_block == wb_write_block(section)
        cm == First({k \in DOMAIN write_block : write_block[k].kind = "clat"})
    IN  IF case_name = pre_fill THEN <<>>
        ELSE IF grp = "other" THEN <<>>
        ELSE IF err # 0 THEN <<>>
        ELSE IF wm = 0 THEN <<>>
        ELSE IF cm = 0 THEN <<>>
        ELSE << [name |-> case_name, group |-> grp, rw |-> header_args.RW,
                 bs |-> header_args.BS, jobs |-> jobs, qd |-> qd, err |-> err,
                 write_iops |-> parse_iops(section[wm].iops[1]).val,
                 write_bw_mib |->
                     wb_parse_bw_to_mib(section[wm].bw, section[wm].unit).val,
                 write_lat_us |->
                     parse_latency_to_us(
                         write_block[cm].unit, write_block[cm].avg.lit,
                         FirstSfxChar(write_block[cm].avg.sfx)).val] >>

\* parse_single_case(case_name, header_args, section): <<>> for None, else
\* <<FioCase>>.
parse_single_case(case_name, header_args, section) ==
    LET grp == infer_group(case_name)
        jobs == IF header_args.Jobs = <<>> THEN 1 ELSE header_args.Jobs[1]
        qd == IF header_args.QD = <<>> THEN 1 ELSE header_args.QD[1]
        em == wb_err_match(case_name, section)
        err == IF em # 0 THEN section[em].err ELSE 0
        wm == wb_write_match(section)
        write_block == wb_write_block(section)
        cm == First({k \in DOMAIN write_block : write_block[k].kind = "clat"})
    IN  IF case_name = pre_fill THEN <<>>
        ELSE IF grp = "other" THEN <<>>
        ELSE IF err # 0 THEN <<>>
        ELSE IF \E k \in DOMAIN section : section[k].kind = "ioerr" THEN <<>>
        ELSE IF wm = 0 THEN <<>>
        ELSE IF cm = 0 THEN <<>>
        ELSE << [name |-> case_name, group |-> grp, rw |-> header_args.RW,
                 bs |-> header_args.BS, jobs |-> jobs, qd |-> qd, err |-> err,
                 write_iops |-> parse_iops(section[wm].iops[1]).val,
                 write_bw_mib |->
                     wb_parse_bw_to_mib(section[wm].bw, section[wm].unit).val,
                 write_lat_us |->
                     parse_latency_to_us(
                         write_block[cm].unit, write_block[cm].avg.lit,
                         FirstSfxChar(write_block[cm].avg.sfx)).val] >>

\* list(re.finditer(r"--- Running:\s+([^\s]+)\s+\((.*?)\)\s+---", content)):
\* the positions of the banners.
RECURSIVE run_iter_from(_, _)
run_iter_from(t, k) ==
    IF k > Len(t) THEN <<>>
    ELSE (IF t[k].kind = "run" THEN <<k>> ELSE <<>>) \o run_iter_from(t, k + 1)
run_iter(t) == run_iter_from(t, 1)

\* content[start:end] for the banner of index idx (from 0, as in the code).
wb_section(t, idx) ==
    LET ri == run_iter(t)
        start == ri[idx + 1]
        end == IF idx + 1 < Len(ri) THEN ri[idx + 2] ELSE Len(t) + 1
    IN  SubSeq(t, start, end - 1)

\* cases[case_name] = parsed
DictSet(d, key, v) ==
    [n \in DOMAIN d \cup {key} |-> IF n = key THEN v ELSE d[n]]

(***************************************************************************)
(* order_by_group of the wb script.                                        *)
(***************************************************************************)

Range(s) == {s[k] : k \in DOMAIN s}

\* Code point order of the characters of the case names.
Alphabet ==
    <<"0", "1", "2", "3", "4", "5", "6", "7", "8", "9", "_", "a", "b", "c",
      "d", "e", "f", "g", "h", "i", "j", "k", "l", "m", "n", "o", "p", "q",
      "r", "s", "t", "u", "v", "w", "x", "y", "z">>
CharCode(c) == CHOOSE k \in DOMAIN Alphabet : Alphabet[k] = c

\* a < b for Python strings.
RECURSIVE StrLess(_, _)
StrLess(a, b) ==
    IF a = <<>> THEN b # <<>>
    ELSE IF b = <<>> THEN FALSE
    ELSE IF Head(a) = Head(b) THEN StrLess(Tail(a), Tail(b))
    ELSE CharCode(Head(a)) < CharCode(Head(b))

\* sorted(s, key=...): a stable sort by the integer key[x].
RECURSIVE SortedBy(_, _)
SortedBy(s, key) ==
    IF s = <<>> THEN <<>>
    ELSE LET init == SortedBy(SubSeq(s, 1, Len(s) - 1), key)
             x == s[Len(s)]
             p == Cardinality({k \in DOMAIN init : key[init[k]] <= key[x]})
         IN  SubSeq(init, 1, p) \o <<x>> \o SubSeq(init, p + 1, Len(init))

\* sorted(s) of strings: the key of x is the number of strings below it.
Sorted(s) ==
    SortedBy(s, [x \in Range(s) |->
                   Cardinality({y \in Range(s) : StrLess(y, x)})])

preferred_volume == <<vol_small_seq, vol_small_rand, vol_large_seq, vol_large_rand>>
preferred_mode == <<mode_write, mode_randwrite, mode_rw, mode_randrw>>

\* [n for n in preferred if n in names]
PreferredIn(preferred, nms) ==
    LET keep(n) == n \in Range(nms) IN SelectSeq(preferred, keep)

\* bs_key(n) on the text bs = <n><u>
bs_key(bs) ==
    LET u == LowerChar(bs.u)
    IN  IF u = "k" THEN bs.n ELSE IF u = "m" THEN bs.n * 1024 ELSE 0

\* order_by_group(names, group, case_map)
order_by_group(nms, grp, case_map) ==
    IF grp = "volume" THEN PreferredIn(preferred_volume, nms)
    ELSE IF grp = "block_size"
         THEN SortedBy(nms, [n \in Range(nms) |-> bs_key(case_map[n].bs)])
    ELSE IF grp = "jobs"
         THEN SortedBy(nms, [n \in Range(nms) |-> case_map[n].jobs])
    ELSE IF grp = "mode" THEN PreferredIn(preferred_mode, nms)
    ELSE IF grp = "qd_scan"
         THEN SortedBy(nms, [n \in Range(nms) |-> case_map[n].qd])
    ELSE Sorted(nms)

(***************************************************************************)
(* The parse functions from the text of the file to what they return.     *)
(***************************************************************************)

\* for i in range(1, len(qd_sections), 2): if i + 1 < len(qd_sections): ...
\* (k is the index i of the code, from 0)
RECURSIVE cache_improved_loop(_, _, _, _)
cache_improved_loop(qd_sections, k, d, op) ==
    IF k >= Len(qd_sections) THEN d
    ELSE cache_improved_loop(
             qd_sections, k + 2,
             IF k + 1 < Len(qd_sections)
             THEN cache_improved_body(d, qd_sections[k + 1],
                                      qd_sections[k + 2], op)
             ELSE d,
             op)

\* parse_fio_log_improved(log_file, op_type) of the cache script, on the
\* content read from the file.
cache_parse_fio_log_improved(t, op) ==
    cache_improved_loop(Split(t), 1, EmptyData, op)

RECURSIVE plain_improved_loop(_, _, _)
plain_improved_loop(qd_sections, k, d) ==
    IF k >= Len(qd_sections) THEN d
    ELSE plain_improved_loop(
             qd_sections, k + 2,
             IF k + 1 < Len(qd_sections)
             THEN plain_improved_body(d, qd_sections[k + 1],
                                      qd_sections[k + 2])
             ELSE d)

\* parse_fio_log_improved(log_file) of the plain script.
plain_parse_fio_log_improved(t) ==
    plain_improved_loop(Split(t), 1, EmptyData)

\* for match in matches: ...
RECURSIVE legacy_loop(_, _, _)
legacy_loop(t, matches, d) ==
    IF matches = <<>> THEN d
    ELSE legacy_loop(t, Tail(matches), legacy_body(d, t, Head(matches)))

\* The legacy parse_fio_log(log_file).
legacy_parse_fio_log(t) == legacy_loop(t, legacy_findall(t, 1), EmptyData)

\* One pass of `for idx, m in enumerate(run_iter)` on (cases, skipped).
wb_loop_body(acc, t, idx) ==
    LET ri == run_iter(t)
        case_name == t[ri[idx + 1]].name
        header_args == t[ri[idx + 1]].args
        section == wb_section(t, idx)
        parsed == parse_single_case(case_name, header_args, section)
        em == wb_err_match(case_name, section)
    IN  IF parsed = <<>>
        THEN IF em # 0 /\ section[em].err # 0
             THEN [acc EXCEPT !.skipped = Append(@, case_name)]
             ELSE acc
        ELSE [acc EXCEPT !.cases = DictSet(@, case_name, parsed[1])]

RECURSIVE wb_loop(_, _, _)
wb_loop(t, idx, acc) ==
    IF idx >= Len(run_iter(t)) THEN acc
    ELSE wb_loop(t, idx + 1, wb_loop_body(acc, t, idx))

\* parse_fio_log(log_path) of the wb script: (cases, skipped).
wb_parse_fio_log(t) == wb_loop(t, 0, [cases |-> <<>>, skipped |-> <<>>])

(***************************************************************************)
(* Inputs.                                                                 *)
(***************************************************************************)

\* The most "Testing QD" banners a log of the model holds.
MaxSections == 2

Lits ==
    {Lit(0, 0), Lit(1, 0), Lit(512, 0), Lit(1205, 0), Lit(927, -1),
     Lit(190, -2), Lit(4502807, -2)}
Suffixes == {"", "k", "m", "u", "n", "kk"}
LatUnits == {nsec, usec, msec, sec, nsecs, msecs, NSEC, hour}
BwUnits == {"KiB/s", "MiB/s", "GiB/s", "TiB/s", "B/s"}

NoCall == [fn |-> "", lit |-> Lit(0, 0), k |-> FALSE, sfx |-> "",
           unit |-> <<>>, bw |-> ""]
Calls ==
    {[NoCall EXCEPT !.fn = "parse_iops", !.lit = l, !.k = k] :
        l \in Lits, k \in BOOLEAN}
    \cup {[NoCall EXCEPT !.fn = f, !.lit = l, !.bw = u] :
            f \in {"cache.parse_bw_to_mib", "wb.parse_bw_to_mib"},
            l \in Lits, u \in BwUnits}
    \cup {[NoCall EXCEPT !.fn = f, !.lit = l, !.sfx = x, !.unit = u] :
            f \in {"convert_latency_to_us", "parse_latency_to_us"},
            l \in Lits, x \in Suffixes, u \in LatUnits}

\* Lines of the sample sections.
JobDesc == TextLine(96, 24, FALSE)   \* "test: (g=0): rw=randread, bs=(R) ..."
Padding == TextLine(600, -1, FALSE)  \* 600 characters without a comma
Slat == SlatLine(LatTok(15, -1, ""))
ClatUsec ==
    ClatLine(usec, TRUE, LatTok(3, 0, ""), LatTok(9, 0, ""), LatTok(550, -2, ""))
ClatNsec ==
    ClatLine(nsec, TRUE, LatTok(3, 0, ""), LatTok(98, 0, "k"),
             LatTok(4502807, -2, ""))
ClatMsec ==
    ClatLine(msec, TRUE, LatTok(1, 0, ""), LatTok(4, 0, ""), LatTok(190, -2, ""))
ClatAvgOnly ==
    ClatLine(usec, FALSE, LatTok(0, 0, ""), LatTok(0, 0, ""), LatTok(98667, -2, ""))
PctOf(unit) ==
    <<PctHdr(unit),
      PctVal(<<LatTok(7, 0, "")>>, <<LatTok(8, 0, "")>>, <<LatTok(9, 0, "")>>)>>
Read927k == OpLine("read", <<IopsTok(927, -1, TRUE)>>, Lit(362, 0), "MiB/s")
Read1205 == OpLine("read", <<IopsTok(1205, 0, FALSE)>>, Lit(141, 0), "MiB/s")
ReadNoBw == OpLine("read", <<IopsTok(1205, 0, FALSE)>>, Lit(0, 0), "")
ReadKiB == OpLine("read", <<IopsTok(125, -1, FALSE)>>, Lit(512, 0), "KiB/s")
ReadGiB == OpLine("read", <<IopsTok(362, -1, TRUE)>>, Lit(1, 0), "GiB/s")
ReadDec == OpLine("read", <<IopsTok(125, -1, FALSE)>>, Lit(362, 0), "MiB/s")
Write362k == OpLine("write", <<IopsTok(362, -1, TRUE)>>, Lit(141, 0), "MiB/s")
WriteKiB == OpLine("write", <<IopsTok(1034, 0, FALSE)>>, Lit(512, 0), "KiB/s")

\* The texts that follow a "Testing QD" banner.
SweepBodies ==
    { <<JobDesc, Read927k, Slat, ClatUsec>> \o PctOf(usec),   \* complete
      <<ReadNoBw, Slat, ClatUsec>> \o PctOf(usec),            \* no BW field
      <<JobDesc, Read1205, Slat>> \o PctOf(usec),             \* no clat line
      <<JobDesc, Slat, ClatUsec>> \o PctOf(usec),             \* no IOPS field
      <<JobDesc, ReadKiB, Slat, ClatNsec>> \o PctOf(nsec),    \* KiB/s, nsec
      <<ReadGiB, Slat, ClatMsec>> \o PctOf(msec),             \* GiB/s, msec
      <<JobDesc, Read1205, Slat, ClatUsec>>,                  \* no percentiles
      <<JobDesc, Read1205, Slat, ClatAvgOnly>> \o PctOf(usec),\* clat: avg only
      <<JobDesc, Read927k, Slat, ClatUsec>> \o PctOf(usec)    \* read and write
          \o <<WriteKiB, Slat, ClatMsec>> \o PctOf(msec),
      <<Padding, ReadDec, Slat, ClatUsec>> \o PctOf(usec),   \* no ',' near
      <<>> }                                                  \* nothing

QDs == {1, 2}

\* The texts before the first banner.
Preambles == { <<>>, <<JobDesc, Read1205, Slat, ClatUsec>> \o PctOf(usec) }

\* The log of preamble p and the sections (banner qs[k], body bs[k]).
RECURSIVE SweepText(_, _, _)
SweepText(p, qs, bs) ==
    IF qs = <<>> THEN p
    ELSE SweepText(p, SubSeq(qs, 1, Len(qs) - 1), SubSeq(bs, 1, Len(bs) - 1))
         \o <<Banner(qs[Len(qs)])>> \o bs[Len(bs)]

\* The header arguments of the run of a case.
HeaderArgs(name) ==
    LET dflt == [RW |-> "write", BS |-> [n |-> 4, u |-> "k"],
                 Jobs |-> <<1>>, QD |-> <<1>>]
    IN  CASE name = bs_128k -> [dflt EXCEPT !.BS = [n |-> 128, u |-> "k"]]
          [] name = bs_1m -> [dflt EXCEPT !.BS = [n |-> 1, u |-> "M"]]
          [] name = jobs_4 -> [dflt EXCEPT !.Jobs = <<4>>]
          [] name = qd_scan_1 -> [dflt EXCEPT !.QD = <<>>]
          [] name = qd_scan_8 -> [dflt EXCEPT !.QD = <<8>>]
          [] OTHER -> dflt

\* The texts that follow the "Running" banner of the case `name`.  A text
\* holds at most one err line of its own case, as fio prints with
\* group_reporting.  A case of no group is tried with fewer texts: the parser
\* reads nothing but the err line of such a section.
OtherJob(name) == IF name = pre_fill THEN warmup ELSE pre_fill
NamedBodies(name) ==
    { <<ErrLine(name, 0), Write362k, Slat, ClatAvgOnly>>,       \* valid
      <<ErrLine(name, 5), Write362k, Slat, ClatUsec>>,          \* err= 5
      <<IoErrLine, ErrLine(name, 0), Write362k, Slat, ClatUsec>>, \* marker only
      <<>> }                                                    \* nothing
    \cup
    IF infer_group(name) = "other" THEN {}
    ELSE
    { <<Write362k, Slat, ClatUsec>>,                            \* no err line
      <<IoErrLine, ErrLine(name, 5)>>,                          \* failed run
      <<ErrLine(name, 0), Read927k, Slat, ClatUsec>>,           \* no write
      <<ErrLine(name, 0), Write362k>>,                          \* no clat
      <<ErrLine(OtherJob(name), 5), ErrLine(name, 0), WriteKiB, Slat, ClatNsec>>,
      <<ErrLine(name, 0), Read927k, Slat, ClatUsec,             \* read, write
        WriteKiB, Slat, ClatMsec, RunStatusLine>> }

RunNames == {vol_small_seq, bs_4k, pre_fill, warmup}

\* The most "Running" banners a log of the model holds.
MaxRuns == 2

\* The log of the runs (banner of ns[k], body bs[k]).
RECURSIVE NamedText(_, _)
NamedText(ns, bs) ==
    IF ns = <<>> THEN <<>>
    ELSE NamedText(SubSeq(ns, 1, Len(ns) - 1), SubSeq(bs, 1, Len(bs) - 1))
         \o <<RunBanner(ns[Len(ns)], HeaderArgs(ns[Len(ns)]))>> \o bs[Len(bs)]

\* The arguments main gives order_by_group: the names of one group among
\* sorted(set(without_cases) & set(with_cases)), and without_cases.
AllNames ==
    {vol_small_seq, vol_small_rand, vol_large_seq, vol_large_rand,
     vol_mid_seq, vol_extra, mode_write, mode_randwrite, mode_rw, mode_randrw,
     mode_trim, bs_4k, bs_128k, bs_1m, jobs_1, jobs_4, qd_scan_1, qd_scan_8,
     pre_fill, warmup}
RECURSIVE SetToSeq(_)
SetToSeq(S) ==
    IF S = {} THEN <<>>
    ELSE LET x == CHOOSE x \in S : TRUE IN <<x>> \o SetToSeq(S \ {x})
CaseMap ==
    [n \in {x \in AllNames : infer_group(x) # "other"} |->
        parse_single_case(n, HeaderArgs(n),
                          <<ErrLine(n, 0), Write362k, Slat, ClatUsec>>)[1]]
OrderGroups == {"volume", "block_size", "jobs", "mode", "qd_scan", "other"}

\* A log file: it is missing, or holds bytes that are no UTF-8, or is plain
\* text; `text` is what the file holds, less the bytes that are no UTF-8.
File(state, text) == [state |-> state, text |-> text]

\* with open(log_file, 'r', encoding='utf-8') as f: content = f.read()
open_read(file) ==
    IF file.state = "missing" THEN [exc |-> "FileNotFoundError", content |-> <<>>]
    ELSE IF file.state = "undecodable"
         THEN [exc |-> "UnicodeDecodeError", content |-> <<>>]
    ELSE [exc |-> "", content |-> file.text]

\* log_path.read_text(encoding="utf-8", errors="ignore")
read_text_ignore(file) ==
    IF file.state = "missing" THEN [exc |-> "FileNotFoundError", content |-> <<>>]
    ELSE [exc |-> "", content |-> file.text]

\* The most files test_files holds.
MaxFiles == 2

cache_sizes == <<"512KB", "1024KB", "1536KB", "2048KB", "DRAM">>
wb_logs == <<"without_write_buffer.log", "with_write_buffer.log">>

\* The files of a batch of sweep logs and of the two named-run logs.
CompleteBody == <<JobDesc, Read927k, Slat, ClatUsec>> \o PctOf(usec)
          \o <<WriteKiB, Slat, ClatMsec>> \o PctOf(msec)
SweepFiles ==
    {File("missing", <<>>),
     File("undecodable", SweepText(<<>>, <<1>>, <<CompleteBody>>)),
     File("ok", <<>>),
     File("ok", SweepText(<<>>, <<1>>, <<CompleteBody>>)),
     File("ok", SweepText(<<>>, <<1, 2>>, <<CompleteBody, CompleteBody>>))}
ValidRun(name) ==
    <<RunBanner(name, HeaderArgs(name)), ErrLine(name, 0), Write362k, Slat,
      ClatUsec>>
FailedRun(name) ==
    <<RunBanner(name, HeaderArgs(name)), ErrLine(name, 5), IoErrLine>>
NamedFiles ==
    {File("missing", <<>>),
     File("undecodable", ValidRun(bs_4k)),
     File("ok", <<>>),
     File("ok", ValidRun(bs_4k) \o ValidRun(vol_small_seq)),
     File("ok", ValidRun(bs_4k) \o FailedRun(vol_small_seq))}

(***************************************************************************)
(* The programs: a call of a unit normalizer, a run of a parser over a     *)
(* log, a call of order_by_group.                                          *)
(***************************************************************************)

InitUnits ==
    /\ parser = "units" /\ pc = "call"
    /\ call \in Calls
    /\ ret = NoRet /\ content = <<>> /\ op_type = ""
    /\ i = 0 /\ data = EmptyData /\ cases = <<>> /\ skipped = <<>>
    /\ names = <<>> /\ group = "" /\ ordered = <<>>
    /\ test_files = <<>> /\ all_data = <<>>

InitSweep ==
    /\ pc = "loop"
    /\ \E n \in 0..MaxSections, p \in Preambles :
          \E qs \in [1..n -> QDs], bs \in [1..n -> SweepBodies] :
             content = SweepText(p, qs, bs)
    /\ \/ parser = "cache_improved" /\ op_type \in {"read", "write"} /\ i = 1
       \/ parser = "plain_improved" /\ op_type = "" /\ i = 1
       \/ parser = "legacy" /\ op_type = "" /\ i = 0
    /\ call = NoCall /\ ret = NoRet
    /\ data = EmptyData /\ cases = <<>> /\ skipped = <<>>
    /\ names = <<>> /\ group = "" /\ ordered = <<>>
    /\ test_files = <<>> /\ all_data = <<>>

InitNamed ==
    /\ parser = "wb_parse_fio_log" /\ pc = "loop"
    /\ \E n \in 0..MaxRuns :
          \E ns \in [1..n -> RunNames] :
             \E bs \in [1..n -> UNION {NamedBodies(nm) : nm \in RunNames}] :
                /\ \A k \in 1..n : bs[k] \in NamedBodies(ns[k])
                /\ content = NamedText(ns, bs)
    /\ call = NoCall /\ ret = NoRet /\ op_type = ""
    /\ i = 0 /\ data = EmptyData /\ cases = <<>> /\ skipped = <<>>
    /\ names = <<>> /\ group = "" /\ ordered = <<>>
    /\ test_files = <<>> /\ all_data = <<>>

InitOrder ==
    /\ parser = "order_by_group" /\ pc = "call"
    /\ group \in OrderGroups
    /\ \E S \in SUBSET {x \in AllNames : infer_group(x) = group} :
          names = Sorted(SetToSeq(S))
    /\ call = NoCall /\ ret = NoRet /\ content = <<>> /\ op_type = ""
    /\ i = 0 /\ data = EmptyData /\ cases = <<>> /\ skipped = <<>>
    /\ ordered = <<>>
    /\ test_files = <<>> /\ all_data = <<>>

\* parse_dataset(test_files, op_type) on the files main builds, one per
\* cache size, and the two parse_fio_log calls of main of the wb script.
InitBatch ==
    /\ pc = "loop" /\ i = 0 /\ all_data = <<>>
    /\ \/ /\ parser = "parse_dataset" /\ op_type \in {"read", "write"}
          /\ \E n \in 0..MaxFiles : \E fs \in [1..n -> SweepFiles] :
                test_files =
                    [k \in 1..n |-> [file |-> fs[k], label |-> cache_sizes[k]]]
       \/ /\ parser = "wb_main" /\ op_type = ""
          /\ \E fs \in [1..2 -> NamedFiles] :
                test_files =
                    [k \in 1..2 |-> [file |-> fs[k], label |-> wb_logs[k]]]
    /\ call = NoCall /\ ret = NoRet /\ content = <<>>
    /\ data = EmptyData /\ cases = <<>> /\ skipped = <<>>
    /\ names = <<>> /\ group = "" /\ ordered = <<>>

Init == InitUnits \/ InitSweep \/ InitNamed \/ InitOrder \/ InitBatch

\* A call of a unit normalizer returns (or raises).
CallUnit ==
    /\ parser = "units" /\ pc = "call"
    /\ ret' =
         CASE call.fn = "parse_iops" -> parse_iops([lit |-> call.lit, k |-> call.k])
           [] call.fn = "cache.parse_bw_to_mib" ->
                cache_parse_bw_to_mib(call.lit, call.bw)
           [] call.fn = "wb.parse_bw_to_mib" ->
                wb_parse_bw_to_mib(call.lit, call.bw)
           [] call.fn = "convert_latency_to_us" ->
                convert_latency_to_us(Float(call.lit), call.unit, call.sfx)
           [] call.fn = "parse_latency_to_us" ->
                parse_latency_to_us(call.unit, call.lit, call.sfx)
    /\ pc' = "returned"
    /\ UNCHANGED <<call, parser, content, op_type, i, data, cases, skipped,
                   names, group, ordered>>
    /\ UNCHANGED <<test_files, all_data>>

\* One pass of `for i in range(1, len(qd_sections), 2)` of the cache script.
CacheImprovedStep ==
    LET qd_sections == Split(content) IN
    /\ parser = "cache_improved" /\ pc = "loop"
    /\ i < Len(qd_sections)
    /\ data' = IF i + 1 < Len(qd_sections)
               THEN cache_improved_body(data, qd_sections[i + 1],
                                        qd_sections[i + 2], op_type)
               ELSE data
    /\ i' = i + 2
    /\ UNCHANGED <<call, ret, parser, content, op_type, pc, cases, skipped,
                   names, group, ordered>>
    /\ UNCHANGED <<test_files, all_data>>

\* One pass of `for i in range(1, len(qd_sections), 2)` of the plain script.
PlainImprovedStep ==
    LET qd_sections == Split(content) IN
    /\ parser = "plain_improved" /\ pc = "loop"
    /\ i < Len(qd_sections)
    /\ data' = IF i + 1 < Len(qd_sections)
               THEN plain_improved_body(data, qd_sections[i + 1],
                                        qd_sections[i + 2])
               ELSE data
    /\ i' = i + 2
    /\ UNCHANGED <<call, ret, parser, content, op_type, pc, cases, skipped,
                   names, group, ordered>>
    /\ UNCHANGED <<test_files, all_data>>

\* One pass of `for match in matches` of the legacy parse_fio_log.
LegacyStep ==
    LET matches == legacy_findall(content, 1) IN
    /\ parser = "legacy" /\ pc = "loop"
    /\ i < Len(matches)
    /\ data' = legacy_body(data, content, matches[i + 1])
    /\ i' = i + 1
    /\ UNCHANGED <<call, ret, parser, content, op_type, pc, cases, skipped,
                   names, group, ordered>>
    /\ UNCHANGED <<test_files, all_data>>

\* One pass of `for idx, m in enumerate(run_iter)` of the wb parse_fio_log.
WbParseStep ==
    LET ri == run_iter(content) IN
    /\ parser = "wb_parse_fio_log" /\ pc = "loop"
    /\ i < Len(ri)
    /\ LET case_name == content[ri[i + 1]].name
           header_args == content[ri[i + 1]].args
           section == wb_section(content, i)
           parsed == parse_single_case(case_name, header_args, section)
           em == wb_err_match(case_name, section)
       IN  IF parsed = <<>>
           THEN /\ skipped' = IF em # 0 /\ section[em].err # 0
                              THEN Append(skipped, case_name) ELSE skipped
                /\ cases' = cases
           ELSE /\ cases' = DictSet(cases, case_name, parsed[1])
                /\ skipped' = skipped
    /\ i' = i + 1
    /\ UNCHANGED <<call, ret, parser, content, op_type, pc, data, names,
                   group, ordered>>
    /\ UNCHANGED <<test_files, all_data>>

\* The loop of the running parser is over: it returns.
LoopLen ==
    CASE parser \in {"cache_improved", "plain_improved"} -> Len(Split(content))
      [] parser = "legacy" -> Len(legacy_findall(content, 1))
      [] parser = "wb_parse_fio_log" -> Len(run_iter(content))
      [] parser \in {"parse_dataset", "wb_main"} -> Len(test_files)
      [] OTHER -> 0
Return ==
    /\ pc = "loop"
    /\ i >= LoopLen
    /\ pc' = "done"
    /\ UNCHANGED <<call, ret, parser, content, op_type, i, data, cases,
                   skipped, names, group, ordered>>
    /\ UNCHANGED <<test_files, all_data>>

\* order_by_group(names, group, without_cases) returns.
OrderByGroup ==
    /\ parser = "order_by_group" /\ pc = "call"
    /\ ordered' = order_by_group(names, group, CaseMap)
    /\ pc' = "returned"
    /\ UNCHANGED <<call, ret, parser, content, op_type, i, data, cases,
                   skipped, names, group>>
    /\ UNCHANGED <<test_files, all_data>>

\* One pass of `for log_file, cache_size in test_files` of parse_dataset:
\* the exception of open() or read() is caught nowhere and ends the loop.
ParseDatasetStep ==
    /\ parser = "parse_dataset" /\ pc = "loop"
    /\ i < Len(test_files)
    /\ LET log_file == test_files[i + 1].file
           cache_size == test_files[i + 1].label
           rd == open_read(log_file)
           d == cache_parse_fio_log_improved(rd.content, op_type)
       IN  IF rd.exc # ""
           THEN /\ pc' = "raised" /\ ret' = Raise(rd.exc)
                /\ UNCHANGED <<i, all_data>>
           ELSE /\ all_data' = IF d.qd # <<>>
                               THEN DictSet(all_data, cache_size, d)
                               ELSE all_data
                /\ i' = i + 1
                /\ UNCHANGED <<pc, ret>>
    /\ UNCHANGED <<call, parser, content, op_type, data, cases, skipped,
                   names, group, ordered, test_files>>

\* main of the wb script: parse_fio_log(without_log), then
\* parse_fio_log(with_log); an exception of read_text ends main.
WbMainStep ==
    /\ parser = "wb_main" /\ pc = "loop"
    /\ i < Len(test_files)
    /\ LET rd == read_text_ignore(test_files[i + 1].file)
       IN  IF rd.exc # ""
           THEN /\ pc' = "raised" /\ ret' = Raise(rd.exc)
                /\ UNCHANGED <<i, all_data>>
           ELSE /\ all_data' = DictSet(all_data, test_files[i + 1].label,
                                       wb_parse_fio_log(rd.content))
                /\ i' = i + 1
                /\ UNCHANGED <<pc, ret>>
    /\ UNCHANGED <<call, parser, content, op_type, data, cases, skipped,
                   names, group, ordered, test_files>>

Next ==
    \/ CallUnit
    \/ CacheImprovedStep
    \/ PlainImprovedStep
    \/ LegacyStep
    \/ WbParseStep
    \/ Return
    \/ OrderByGroup
    \/ ParseDatasetStep
    \/ WbMainStep

Spec == Init /\ [][Next]_vars

\* The programs one by one.
NextUnits == CallUnit
SpecUnits == InitUnits /\ [][NextUnits]_vars

NextSweep ==
    \/ CacheImprovedStep
    \/ PlainImprovedStep
    \/ LegacyStep
    \/ Return
SpecSweep == InitSweep /\ [][NextSweep]_vars

NextNamed == WbParseStep \/ Return
SpecNamed == InitNamed /\ [][NextNamed]_vars

NextOrder == OrderByGroup
SpecOrder == InitOrder /\ [][NextOrder]_vars

NextBatch == ParseDatasetStep \/ WbMainStep \/ Return
SpecBatch == InitBatch /\ [][NextBatch]_vars

\* The parsers of both grammars.
NextLogs == NextSweep \/ NextNamed
SpecLogs == (InitSweep \/ InitNamed) /\ [][NextLogs]_vars

\* The parsers that split the log into sections before they search it.
InitSplit ==
    \/ InitSweep /\ parser \in {"cache_improved", "plain_improved"}
                 /\ op_type \in {"", "read"}
    \/ InitNamed
NextSplit ==
    \/ CacheImprovedStep
    \/ PlainImprovedStep
    \/ WbParseStep
    \/ Return
SpecSplit == InitSplit /\ [][NextSplit]_vars

(***************************************************************************)
(* Claims about the unit normalizers (SpecUnits).                          *)
(***************************************************************************)

Returned(fns) == parser = "units" /\ pc = "returned" /\ call.fn \in fns
LatencyFns == {"convert_latency_to_us", "parse_latency_to_us"}
BwFns == {"cache.parse_bw_to_mib", "wb.parse_bw_to_mib"}
SupportedLatUnits == {nsec, usec, msec, sec}
SupportedBwUnits == {"KiB/s", "MiB/s", "GiB/s"}
SupportedSuffixes == {"", "k", "m", "u", "n"}

\* C1: a unit normalizer called with a base unit or a suffix outside the
\* enumerated sets fails with an error; it returns no value.
C1_UnsupportedUnitFails ==
    /\ Returned(BwFns) /\ call.bw \notin SupportedBwUnits => ret.exc # ""
    /\ Returned(LatencyFns)
         /\ (call.unit \notin SupportedLatUnits
               \/ call.sfx \notin SupportedSuffixes)
       => ret.exc # ""

\* The power of ten a suffix stands for, and the power of ten that takes a
\* base unit to microseconds (section 4.1 of the specification).
SuffixExp(sfx) ==
    CASE sfx = "k" -> 3 [] sfx = "m" -> 6 [] sfx = "u" -> -6 [] sfx = "n" -> -9
      [] OTHER -> 0
UnitExp(unit) ==
    CASE unit = nsec -> -3 [] unit = msec -> 3 [] unit = sec -> 6 [] OTHER -> 0

\* What the called latency converter returns for the literal lit * 10^k.
LatencyOf(fn, lit, k, unit, sfx) ==
    IF fn = "convert_latency_to_us"
    THEN convert_latency_to_us(Mul10(Float(lit), k), unit, sfx)
    ELSE parse_latency_to_us(unit, Lit(lit.m, lit.e + k), sfx)

\* C7: in both latency converters and under every base unit, a value with
\* suffix k, m, u, n converts as the value times 10^3, 10^6, 10^-6, 10^-9
\* without suffix.
C7_SuffixScales ==
    Returned(LatencyFns)
      /\ call.unit \in SupportedLatUnits /\ call.sfx \in SupportedSuffixes
    => ret = LatencyOf(call.fn, call.lit, SuffixExp(call.sfx), call.unit, "")

\* C8: without suffix both latency converters return value/1000 for nsec,
\* value for usec, value*1000 for msec and value*1000000 for sec.
C8_BaseUnitConversion ==
    Returned(LatencyFns) /\ call.unit \in SupportedLatUnits /\ call.sfx = ""
    => ret = Ok(Mul10(Float(call.lit), UnitExp(call.unit)))

\* C11: a latency with base unit usec and no suffix, and a bandwidth with
\* unit MiB/s, convert to exactly the value of their number, in every one of
\* the four converters.
C11_CanonicalUnchanged ==
    /\ Returned(LatencyFns) /\ call.unit = usec /\ call.sfx = ""
       => ret = Ok(Float(call.lit))
    /\ Returned(BwFns) /\ call.bw = "MiB/s" => ret = Ok(Float(call.lit))

\* parse_latency_to_us('usec', '45028.07', '') has returned 45028.07.
C11_Witness ==
    /\ Returned({"parse_latency_to_us"})
    /\ call.unit = usec /\ call.sfx = "" /\ call.lit = Lit(4502807, -2)
    /\ ret = Ok(Dec(4502807, -2))

(***************************************************************************)
(* Claims about the sweep parsers (SpecSweep).                             *)
(***************************************************************************)

ImprovedParsers == {"cache_improved", "plain_improved"}
SweepParsers == ImprovedParsers \cup {"legacy"}

\* The sections of the log, in order: [qd, text].
SweepSections ==
    LET qs == Split(content)
    IN  [k \in 1..((Len(qs) - 1) \div 2) |->
           [qd |-> qs[2 * k], text |-> qs[2 * k + 1]]]
DistinctQDs ==
    \A j, k \in DOMAIN SweepSections :
        j # k => SweepSections[j].qd # SweepSections[k].qd

\* The operation whose block the running parser reads.
OpOf == IF parser = "cache_improved" THEN op_type ELSE "read"
\* The list the running parser stores the average latency in.
AvgList == IF parser = "cache_improved" THEN data.latency_avg ELSE data.latency

\* The mandatory fields of section 4.2 of the specification.
HasIopsField(text, op) ==
    \E k \in DOMAIN text :
        text[k].kind = "op" /\ text[k].op = op /\ text[k].iops # <<>>
HasBwField(text) ==
    \E k \in DOMAIN text : text[k].kind = "op" /\ text[k].unit # ""
HasClatAvg(text) == \E k \in DOMAIN text : text[k].kind = "clat"
Complete(text, op) ==
    HasIopsField(text, op) /\ HasBwField(text) /\ HasClatAvg(text)

\* The canonical values of a bandwidth field and of an IOPS token
\* (section 4.1 of the specification).
RefMiB(lit, unit) ==
    Mul1024(Float(lit),
            CASE unit = "KiB/s" -> -1 [] unit = "GiB/s" -> 1 [] OTHER -> 0)
RefIops(tok) == IF tok.k THEN Mul10(Float(tok.lit), 3) ELSE Float(tok.lit)
BwValues(text) ==
    {RefMiB(text[k].bw, text[k].unit) :
        k \in {j \in DOMAIN text : text[j].kind = "op" /\ text[j].unit # ""}}
IopsValues(text) ==
    {RefIops(text[k].iops[1]) :
        k \in {j \in DOMAIN text : text[j].kind = "op" /\ text[j].iops # <<>>}}

\* C2: when parse_fio_log_improved has returned, a section that lacks a
\* mandatory field has its QD nowhere in data['qd'], every section that has
\* them all has its QD there, and the entries of the metric lists stand
\* beside the QD of their own section.
C2_IncompleteSectionAbsent ==
    pc = "done" /\ parser \in ImprovedParsers /\ DistinctQDs
    => /\ \A k \in DOMAIN SweepSections :
            Complete(SweepSections[k].text, OpOf)
            <=> SweepSections[k].qd \in Range(data.qd)
       /\ Len(data.iops) = Len(data.qd)
       /\ Len(data.bandwidth) = Len(data.qd)
       /\ Len(AvgList) = Len(data.qd)
       /\ \A j \in DOMAIN data.qd : \A k \in DOMAIN SweepSections :
            SweepSections[k].qd = data.qd[j]
            => data.bandwidth[j] \in BwValues(SweepSections[k].text)

\* C5: when parse_fio_log_improved has returned, the queue depths of
\* data['qd'] are in strictly increasing order (hence pairwise distinct).
C5_QdStrictlyIncreasing ==
    pc = "done" /\ parser \in ImprovedParsers
    => \A j, k \in DOMAIN data.qd : j < k => data.qd[j] < data.qd[k]

\* A section with one operation block, of reads, and every field any of the
\* sweep parsers looks for.
PlainReadSection(text) ==
    /\ Cardinality({k \in DOMAIN text : text[k].kind = "op"}) = 1
    /\ Complete(text, "read")
    /\ \E k \in DOMAIN text : text[k].kind = "slat"
    /\ \E k \in DOMAIN text : text[k].kind = "clat" /\ text[k].full
    /\ \E k \in DOMAIN text : text[k].kind = "pcthdr"
    /\ \E k \in DOMAIN text : text[k].kind = "pctval"

\* C9: when a sweep parser has returned, every stored bandwidth is the
\* MiB/s value of a BW field of the log, and a section that reports its
\* bandwidth in KiB/s or GiB/s has that value, converted, in the result.
C9_BandwidthInMiB ==
    pc = "done" /\ parser \in SweepParsers /\ OpOf = "read"
    => /\ Range(data.bandwidth) \subseteq BwValues(content)
       /\ \A k \in DOMAIN SweepSections :
            LET text == SweepSections[k].text IN
            PlainReadSection(text)
              /\ (\E j \in DOMAIN text :
                     text[j].kind = "op" /\ text[j].unit \in {"KiB/s", "GiB/s"})
            => BwValues(text) \subseteq Range(data.bandwidth)

\* C10: when a sweep parser has returned, every stored IOPS is the number of
\* an IOPS token of the log, times 1000 when the token ends in k and
\* unscaled otherwise.
C10_IopsScaledByK ==
    pc = "done" /\ parser \in SweepParsers
    => Range(data.iops) \subseteq IopsValues(content)

\* The section lacks an optional field: the percentile block, or the
\* min/max/stdev entries of its clat line.
LacksOptional(text) ==
    \/ ~ \E k \in DOMAIN text : text[k].kind = "pcthdr"
    \/ ~ \E k \in DOMAIN text : text[k].kind = "pctval"
    \/ \E k \in DOMAIN text : text[k].kind = "clat" /\ ~text[k].full

\* C12: when parse_fio_log_improved has returned, a section that has the
\* mandatory fields (IOPS of the operation, bandwidth, clat avg) and lacks
\* the percentile block or the min/max/stdev of the clat line has its QD in
\* data['qd'].
C12_OptionalFieldsNotRequired ==
    pc = "done" /\ parser \in ImprovedParsers /\ DistinctQDs
    => \A k \in DOMAIN SweepSections :
         Complete(SweepSections[k].text, OpOf)
           /\ LacksOptional(SweepSections[k].text)
         => SweepSections[k].qd \in Range(data.qd)

\* What the running sweep parser returns on the text t.
RunOf(t) ==
    CASE parser = "cache_improved" -> cache_parse_fio_log_improved(t, op_type)
      [] parser = "plain_improved" -> plain_parse_fio_log_improved(t)
      [] parser = "legacy" -> legacy_parse_fio_log(t)

\* The results of the first k sections of the log, each parsed as a log of
\* its own (its banner, then its text), put together in log order.
ConcatData(d, e) == [f \in DOMAIN d |-> d[f] \o e[f]]
RECURSIVE SweepJoined(_)
SweepJoined(k) ==
    IF k = 0 THEN EmptyData
    ELSE ConcatData(SweepJoined(k - 1),
                    RunOf(<<Banner(SweepSections[k].qd)>>
                            \o SweepSections[k].text))

\* The block of the operation op in a section: the lines from the first
\* "<op>: IOPS=" line up to the next operation line or the end of the text.
OpBlock(text, op) ==
    LET a == First({k \in DOMAIN text :
                      /\ text[k].kind = "op" /\ text[k].op = op
                      /\ text[k].iops # <<>>})
        e == First({k \in DOMAIN text : k > a /\ text[k].kind = "op"})
    IN  IF a = 0 THEN <<>>
        ELSE SubSeq(text, a, IF e = 0 THEN Len(text) ELSE e - 1)
\* The clat averages of the lines of a text, in microseconds as
\* convert_latency_to_us of the same script gives them.
ClatAvgs(text) ==
    {convert_latency_to_us(Float(text[k].avg.lit), text[k].unit,
                           text[k].avg.sfx).val :
        k \in {j \in DOMAIN text : text[j].kind = "clat"}}

\* C18: when parse_fio_log_improved(log, op_type) of the cache script has
\* returned, the IOPS, the bandwidth and the average latency stored for a
\* section are those of the IOPS token, the BW field and the clat line of
\* the block of op_type in that section.
C18_MetricsOfRequestedOp ==
    pc = "done" /\ parser = "cache_improved" /\ DistinctQDs
    => \A j \in DOMAIN data.qd : \A k \in DOMAIN SweepSections :
         SweepSections[k].qd = data.qd[j]
         => LET block == OpBlock(SweepSections[k].text, op_type) IN
            /\ data.iops[j] \in IopsValues(block)
            /\ data.bandwidth[j] \in BwValues(block)
            /\ data.latency_avg[j] \in ClatAvgs(block)

(***************************************************************************)
(* Claims about the named-run parser (SpecNamed).                          *)
(***************************************************************************)

\* The runs of the log, in order: [name, text], text from the banner on.
RunSections ==
    [k \in 1..Len(run_iter(content)) |->
       [name |-> content[run_iter(content)[k]].name,
        text |-> wb_section(content, k - 1)]]
UniqueNames ==
    \A j, k \in DOMAIN RunSections :
        j # k => RunSections[j].name # RunSections[k].name
Recognized(name) ==
    \E p \in {p_vol, p_bs, p_jobs, p_mode, p_qd_scan} : StartsWith(name, p)
\* The section reports a non-zero err code for its case.
NonZeroErr(run) ==
    \E k \in DOMAIN run.text :
        /\ run.text[k].kind = "err"
        /\ run.text[k].job = run.name
        /\ run.text[k].err # 0
\* The section holds the I/O-error marker, or lacks a mandatory field.
MarkerOrMissing(run) ==
    \/ \E k \in DOMAIN run.text : run.text[k].kind = "ioerr"
    \/ ~ \E k \in DOMAIN run.text :
            /\ run.text[k].kind = "op" /\ run.text[k].op = "write"
            /\ run.text[k].iops # <<>> /\ run.text[k].unit # ""
    \/ ~ \E k \in DOMAIN run.text : run.text[k].kind = "clat"
WbDone == parser = "wb_parse_fio_log" /\ pc = "done"

C16_CasesAreCleanRuns ==
    parser = "wb_parse_fio_log"
    => \A n \in DOMAIN cases :
         /\ Recognized(n)
         /\ cases[n].group \in {"volume", "block_size", "jobs", "mode", "qd_scan"}
         /\ cases[n].name = n
         /\ cases[n].err = 0
         /\ \E k \in DOMAIN RunSections :
               LET run == RunSections[k] IN
               /\ run.name = n
               /\ ~ \E j \in DOMAIN run.text : run.text[j].kind = "ioerr"
               /\ ~NonZeroErr(run)
               /\ cases[n].write_iops \in IopsValues(run.text)

\* parse_fio_log has returned a case, and has left out a run of a
\* recognized group whose section holds the marker and one whose err code
\* is not 0.
C16_Witness ==
    /\ WbDone /\ cases # <<>>
    /\ \E k \in DOMAIN RunSections :
          LET run == RunSections[k] IN
          /\ Recognized(run.name) /\ run.name \notin DOMAIN cases
          /\ \/ \E j \in DOMAIN run.text : run.text[j].kind = "ioerr"
             \/ NonZeroErr(run)

\* C4: when parse_fio_log has returned, a case whose name has none of the
\* group prefixes is neither in cases nor in skipped.
C4_UngroupedSilentlyDropped ==
    WbDone
    => \A k \in DOMAIN RunSections :
         ~Recognized(RunSections[k].name)
         => /\ RunSections[k].name \notin DOMAIN cases
            /\ RunSections[k].name \notin Range(skipped)

\* C17: when parse_fio_log has returned, on a log of unique case names or
\* not, no case name is both a key of cases and an entry of skipped.
C17_CasesSkippedDisjoint ==
    WbDone => DOMAIN cases \cap Range(skipped) = {}

\* The same for the runs of a named-run log.
RECURSIVE WbJoined(_)
WbJoined(k) ==
    IF k = 0 THEN [cases |-> <<>>, skipped |-> <<>>]
    ELSE LET before == WbJoined(k - 1)
             alone == wb_parse_fio_log(RunSections[k].text)
         IN  [cases |-> [n \in DOMAIN before.cases \cup DOMAIN alone.cases |->
                           IF n \in DOMAIN alone.cases THEN alone.cases[n]
                           ELSE before.cases[n]],
              skipped |-> before.skipped \o alone.skipped]

\* C13: what a parser returns for a log is what it returns for each section
\* parsed as a log of its own, put together in log order: the IOPS,
\* bandwidth and latency of a section do not depend on the other sections.
C13_SectionScoped ==
    /\ pc = "done" /\ parser \in SweepParsers
       => data = SweepJoined(Len(SweepSections))
    /\ WbDone
       => /\ cases = WbJoined(Len(RunSections)).cases
          /\ skipped = WbJoined(Len(RunSections)).skipped

(***************************************************************************)
(* Claims about the splitters of both grammars (SpecSplit).               *)
(***************************************************************************)

\* The banners of the log by position: how many there are, the line of the
\* k-th, and the last line before the next one (or of the file).
BannerKind == IF parser = "wb_parse_fio_log" THEN "run" ELSE "banner"
NumBanners == Cardinality({p \in DOMAIN content : content[p].kind = BannerKind})
NthBanner(k) ==
    CHOOSE p \in DOMAIN content :
        /\ content[p].kind = BannerKind
        /\ Cardinality({j \in 1..(p - 1) : content[j].kind = BannerKind}) = k - 1
SectionEnd(k) == IF k < NumBanners THEN NthBanner(k + 1) - 1 ELSE Len(content)

\* C15: each pass of the loop of parse_fio_log_improved and of the wb
\* parse_fio_log works on the section of the next banner of the log, whose
\* text runs up to the line before the following banner or to the end of
\* the file; there is one pass per banner, also for a banner the file ends
\* with, and none for the text before the first banner.
C15_OneSectionPerBanner ==
    /\ parser \in ImprovedParsers /\ pc = "loop" /\ i < Len(Split(content))
       => LET k == (i + 1) \div 2 IN
          /\ k \in 1..NumBanners
          /\ i + 1 < Len(Split(content))
          /\ Split(content)[i + 1] = content[NthBanner(k)].qd
          /\ Split(content)[i + 2] =
                 SubSeq(content, NthBanner(k) + 1, SectionEnd(k))
    /\ parser \in ImprovedParsers /\ pc = "done" => i = 2 * NumBanners + 1
    /\ parser = "plain_improved" /\ pc = "done"
       => data.qd = [k \in 1..NumBanners |-> content[NthBanner(k)].qd]
    /\ parser = "wb_parse_fio_log" /\ pc = "loop" /\ i < Len(run_iter(content))
       => /\ i + 1 \in 1..NumBanners
          /\ run_iter(content)[i + 1] = NthBanner(i + 1)
          /\ wb_section(content, i) =
                 SubSeq(content, NthBanner(i + 1), SectionEnd(i + 1))
    /\ WbDone => i = NumBanners

\* parse_fio_log_improved of the plain script has returned on a log that
\* starts with text before the first banner and ends with its second banner:
\* both banners are in data['qd'].
C15_Witness ==
    /\ parser = "plain_improved" /\ pc = "done"
    /\ content # <<>> /\ content[1].kind # "banner"
    /\ content[Len(content)].kind = "banner"
    /\ NumBanners = 2 /\ Len(data.qd) = 2

(***************************************************************************)
(* Claims about a batch of files (SpecBatch).                              *)
(***************************************************************************)

BatchEnded == parser \in {"parse_dataset", "wb_main"} /\ pc \in {"done", "raised"}
\* The file can be read and decoded by the function the batch reads it with.
Readable(file) ==
    IF parser = "parse_dataset" THEN open_read(file).exc = ""
    ELSE read_text_ignore(file).exc = ""
\* The series the file gives when parsed on its own; parse_dataset keeps a
\* series that has points.
SeriesOf(file) ==
    IF parser = "parse_dataset"
    THEN LET d == cache_parse_fio_log_improved(file.text, op_type)
         IN  IF d.qd # <<>> THEN <<d>> ELSE <<>>
    ELSE <<wb_parse_fio_log(file.text)>>

\* C14: when a batch has ended, every file of it that can be read has been
\* parsed and its series is in the results the batch returns, whatever
\* happened to the other files.
C14_UnreadableFileContained ==
    BatchEnded
    => \A k \in DOMAIN test_files :
         Readable(test_files[k].file) /\ SeriesOf(test_files[k].file) # <<>>
         => /\ pc = "done"
            /\ test_files[k].label \in DOMAIN all_data
            /\ all_data[test_files[k].label] = SeriesOf(test_files[k].file)[1]

(***************************************************************************)
(* Claims about order_by_group (SpecOrder).                                *)
(***************************************************************************)

\* C6: for the groups volume and mode, order_by_group returns the names of
\* the preferred list in its order, then the other names in lexical order.
C6_PreferredThenLexical ==
    parser = "order_by_group" /\ pc = "returned" /\ group \in {"volume", "mode"}
    => LET preferred ==
               IF group = "volume" THEN preferred_volume ELSE preferred_mode
           unknown(n) == n \notin Range(preferred)
       IN  ordered = PreferredIn(preferred, names)
                       \o Sorted(SelectSeq(names, unknown))

====
